---- MODULE Spec2Model ----
(***************************************************************************)
(* Model of process_speakers.py: the pipeline main() = fetch sessions,     *)
(* fetch speakers, merge (explode + left join + projection), export.       *)
(* The two HTTP endpoints are the environment: what each of them answers   *)
(* is fixed when a behaviour starts (sessionsApi, speakersApi) and stays   *)
(* the same over the runs of main against the same output path.            *)
(***************************************************************************)
EXTENDS Integers, Sequences, FiniteSets, TLC

VARIABLES sessionsApi, speakersApi, file, run, pc, sessions_df, speakers_df,
          merged_df, final_df, stdout, requests, stages, writes, escaped,
          fileAtStart, fileAfterRun

vars == <<sessionsApi, speakersApi, file, run, pc, sessions_df, speakers_df,
          merged_df, final_df, stdout, requests, stages, writes, escaped,
          fileAtStart, fileAfterRun>>

---------------------------------------------------------------------------
(* Bounds of the model. *)
MaxRuns == 2
MaxSessions == 2
MaxSpeakers == 2
MaxSpeakerSessions == 2
MaxLinks == 2
MaxIdDigits == 2

---------------------------------------------------------------------------
(* Nullable values: a null is the empty tuple, a value v is <<v>>. *)
Null == <<>>
Val(v) == <<v>>

Range(s) == {s[i] : i \in DOMAIN s}
SeqsUpTo(S, n) == UNION {[1..k -> S] : k \in 0..n}

RECURSIVE Flatten(_)
Flatten(ss) == IF ss = <<>> THEN <<>> ELSE Head(ss) \o Flatten(Tail(ss))

RECURSIVE SumSeq(_)
SumSeq(s) == IF s = <<>> THEN 0 ELSE Head(s) + SumSeq(Tail(s))

---------------------------------------------------------------------------
(* Constants of the program. *)
SESSIONS_API_URL == "https://sessionize.com/api/v2/xhudniix/view/Sessions"
SPEAKERS_API_URL == "https://sessionize.com/api/v2/xhudniix/view/Speakers"

(* The literal part of every message the program prints. *)
MsgFetchingSessions == "Fetching sessions data from"
MsgSessionsFetched == "Successfully fetched data for"
MsgSessionsConnection == "Error: Could not connect to the sessions API. Continuing without recording URLs."
MsgSessionsHttp == "Error: HTTP error occurred when fetching sessions"
MsgSessionsTimeout == "Error: The sessions API request timed out. Continuing without recording URLs."
MsgSessionsRequest == "Error: An error occurred with the sessions API request"
MsgSessionsUnexpected == "Error fetching sessions data"
MsgFetchingSpeakers == "Fetching speakers data from"
MsgNoSpeakers == "No speaker data to process. Exiting."
MsgGenerated == "Successfully generated"
MsgMainConnection == "Error: Could not connect to the API. Please check your internet connection."
MsgMainHttp == "Error: HTTP error occurred"
MsgMainTimeout == "Error: The request timed out. Please try again later."
MsgMainRequest == "Error: An error occurred with the request"
MsgMainUnexpected == "An unexpected error occurred"

---------------------------------------------------------------------------
(* Exceptions.  A failure kind is the class of the raised exception; the   *)
(* except clauses of a try are tried in order and the first whose class    *)
(* the exception is an instance of handles it.                             *)
FailureKinds == {"ConnectionError", "HTTPError", "Timeout", "RequestException", "Exception"}

IsInstance(kind, cls) ==
    \/ cls = kind
    \/ cls = "RequestException" /\ kind \in {"ConnectionError", "HTTPError", "Timeout"}
    \/ cls = "Exception"

Handler(cls, msg) == [cls |-> cls, msg |-> msg]

RECURSIVE Dispatch(_, _)
Dispatch(handlers, kind) ==
    IF handlers = <<>> THEN Null
    ELSE IF IsInstance(kind, Head(handlers).cls) THEN Val(Head(handlers).msg)
    ELSE Dispatch(Tail(handlers), kind)

(* The clauses with the generic request clause first. *)
SessionsHandlersGenericFirst ==
    << Handler("RequestException", MsgSessionsRequest),
       Handler("ConnectionError", MsgSessionsConnection),
       Handler("HTTPError", MsgSessionsHttp),
       Handler("Timeout", MsgSessionsTimeout),
       Handler("Exception", MsgSessionsUnexpected) >>

SessionsHandlers ==
    << Handler("ConnectionError", MsgSessionsConnection),
       Handler("HTTPError", MsgSessionsHttp),
       Handler("Timeout", MsgSessionsTimeout),
       Handler("RequestException", MsgSessionsRequest),
       Handler("Exception", MsgSessionsUnexpected) >>

SpeakersHandlers == << Handler("ConnectionError", "") >>

MainHandlers ==
    << Handler("ConnectionError", MsgMainConnection),
       Handler("HTTPError", MsgMainHttp),
       Handler("Timeout", MsgMainTimeout),
       Handler("RequestException", MsgMainRequest),
       Handler("Exception", MsgMainUnexpected) >>

---------------------------------------------------------------------------
(* Tables.  A table has its column names and its rows in order.            *)
SessionsColumns == <<"SessionTitle", "Recording Url", "SessionId">>
DataFrame(columns, rows) == [columns |-> columns, rows |-> rows]
EmptyDataFrame == DataFrame(<<>>, <<>>)
HasColumn(df, name) == name \in Range(df.columns)
(* Emptiness that needs columns to be there. *)
IsEmptyWithColumns(df) == Len(df.columns) > 0 /\ Len(df.rows) = 0
IsEmpty(df) == Len(df.rows) = 0

SpeakersColumns == <<"id", "fullName", "sessions", "links">>
FinalColumns == <<"Full Name", "Session", "Recording Url", "LinkedIn link",
                  "BlueSky link", "Twitter link", "Instagram link">>

(* An empty table with the columns of the table of a successful fetch. *)
empty_df_SessionsColumns == [columns |-> SessionsColumns, rows |-> <<>>]

(* The table fetch_sessions_data returns on any failure. *)
empty_df == DataFrame(<<"Session", "Recording Url", "id">>, <<>>)

---------------------------------------------------------------------------
(* fetch_sessions_data *)

(* A session id of the sessions API is a string, here its characters. *)
DigitChars == <<"0", "1", "2", "3", "4", "5", "6", "7", "8", "9">>
IsNumeric(s) == Len(s) > 0 /\ \A i \in DOMAIN s : s[i] \in Range(DigitChars)
DigitOf(c) == CHOOSE d \in 0..9 : DigitChars[d + 1] = c

(* The digits read with the first one as the least significant. *)
RECURSIVE CastInt64Reversed(_)
CastInt64Reversed(s) ==
    IF s = <<>> THEN 0
    ELSE DigitOf(s[1]) + 10 * CastInt64Reversed(SubSeq(s, 2, Len(s)))

RECURSIVE CastInt64(_)
CastInt64(s) ==
    IF s = <<>> THEN 0
    ELSE CastInt64(SubSeq(s, 1, Len(s) - 1)) * 10 + DigitOf(s[Len(s)])

(* One record per session of every track, in the order of the response. *)
Records(sessions_data) ==
    Flatten([t \in DOMAIN sessions_data |->
        [j \in DOMAIN sessions_data[t].sessions |->
            [SessionTitle |-> Val(sessions_data[t].sessions[j].title),
             RecordingUrl |-> sessions_data[t].sessions[j].recordingUrl,
             SessionId |-> sessions_data[t].sessions[j].id]]])

CastSessionId(records) ==
    [i \in DOMAIN records |->
        [records[i] EXCEPT !.SessionId = Val(CastInt64(records[i].SessionId))]]

(* The exception raised inside the try of fetch_sessions_data, or "none":  *)
(* the transport's failure; a table built from no record has no SessionId  *)
(* column to cast; a strict cast of a non-numeric string fails.            *)
(* A body that is no JSON makes response.json() raise the JSON error of    *)
(* requests, a RequestException.                                           *)
SessionsFailure(response) ==
    IF response.kind = "unparseable" THEN "RequestException"
    ELSE IF response.kind # "ok" THEN response.kind
    ELSE IF Records(response.body) = <<>> THEN "Exception"
    ELSE IF \E i \in DOMAIN Records(response.body) :
                ~IsNumeric(Records(response.body)[i].SessionId) THEN "Exception"
    ELSE "none"

SessionsTable(response) ==
    DataFrame(SessionsColumns, CastSessionId(Records(response.body)))

---------------------------------------------------------------------------
(* fetch_speakers_data *)
(* A body that is no JSON makes pl.read_json raise, no request exception. *)
SpeakersFailure(response) ==
    IF response.kind = "unparseable" THEN "Exception"
    ELSE IF response.kind # "ok" THEN response.kind
    ELSE "none"

(* pl.read_json: a JSON array of no object gives the empty table. *)
ReadJson(body) ==
    IF body = <<>> THEN EmptyDataFrame ELSE DataFrame(SpeakersColumns, body)

(* A field that no object of the body has gives no column. *)
WithoutColumns(df, absent) ==
    DataFrame(SelectSeq(df.columns, LAMBDA c : c \notin absent), df.rows)

---------------------------------------------------------------------------
(* main: explode, join, projection, export *)

(* speakers_df.explode("sessions") and the SessionId column: one row per   *)
(* element of the list; an empty list gives one row with a null element.   *)
ExplodeRow(speaker) ==
    IF speaker.sessions = <<>>
    THEN << [id |-> speaker.id, fullName |-> speaker.fullName, sessions |-> Null,
             links |-> speaker.links, SessionId |-> Null] >>
    ELSE [j \in DOMAIN speaker.sessions |->
            [id |-> speaker.id, fullName |-> speaker.fullName,
             sessions |-> Val(speaker.sessions[j]), links |-> speaker.links,
             SessionId |-> Val(speaker.sessions[j].id)]]

Explode(df) ==
    DataFrame(df.columns \o <<"SessionId">>,
              Flatten([i \in DOMAIN df.rows |-> ExplodeRow(df.rows[i])]))

(* The rows of the right table whose key equals the left row's key, in     *)
(* order; a null key equals nothing.                                       *)
Matches(key, right) ==
    IF key = Null THEN <<>>
    ELSE SelectSeq(right.rows, LAMBDA r : r.SessionId = key)

Joined(l, title, url) ==
    [id |-> l.id, fullName |-> l.fullName, sessions |-> l.sessions,
     links |-> l.links, SessionId |-> l.SessionId,
     SessionTitle |-> title, RecordingUrl |-> url]

(* An inner join: a left row without a match is dropped. *)
InnerJoinRow(l, right) ==
    [k \in DOMAIN Matches(l.SessionId, right) |->
        Joined(l, Matches(l.SessionId, right)[k].SessionTitle,
                  Matches(l.SessionId, right)[k].RecordingUrl)]

JoinRow(l, right) ==
    IF Matches(l.SessionId, right) = <<>>
    THEN << Joined(l, Null, Null) >>
    ELSE [k \in DOMAIN Matches(l.SessionId, right) |->
            Joined(l, Matches(l.SessionId, right)[k].SessionTitle,
                      Matches(l.SessionId, right)[k].RecordingUrl)]

(* left.join(right, on="SessionId", how="left") *)
LeftJoin(left, right) ==
    DataFrame(left.columns \o <<"SessionTitle", "Recording Url">>,
              Flatten([i \in DOMAIN left.rows |-> JoinRow(left.rows[i], right)]))

(* The last match instead of the first. *)
LastLink(links, title) ==
    IF SelectSeq(links, LAMBDA l : l.title = title) = <<>> THEN Null
    ELSE Val(SelectSeq(links, LAMBDA l : l.title = title)[
                Len(SelectSeq(links, LAMBDA l : l.title = title))].url)

(* links.list.eval(filter(title == t)).list.first().struct.field("url") *)
FirstLink(links, title) ==
    IF SelectSeq(links, LAMBDA l : l.title = title) = <<>> THEN Null
    ELSE Val(Head(SelectSeq(links, LAMBDA l : l.title = title)).url)

(* The title of the joined session record instead of the embedded name. *)
SessionTitleAsName(row) == row.SessionTitle
SessionName(row) == IF row.sessions = Null THEN Null ELSE Val(row.sessions[1].name)

SelectRow(row) ==
    [FullName |-> Val(row.fullName),
     Session |-> SessionName(row),
     RecordingUrl |-> row.RecordingUrl,
     LinkedIn |-> FirstLink(row.links, "LinkedIn"),
     BlueSky |-> FirstLink(row.links, "Bluesky"),
     Twitter |-> FirstLink(row.links, "X (Twitter)"),
     Instagram |-> FirstLink(row.links, "Instagram")]

Select(merged) ==
    DataFrame(FinalColumns, [i \in DOMAIN merged.rows |-> SelectRow(merged.rows[i])])

(* The exception raised inside the try of main, or "none".  The struct     *)
(* accessors need a struct: a list column in which no speaker has any      *)
(* element is read as a list of nulls.  The join needs the key column in   *)
(* the right table.  explode and select need the columns they name.       *)
MergeFailure(speakers, sessions) ==
    IF ~HasColumn(speakers, "sessions") THEN "Exception"
    ELSE IF ~HasColumn(speakers, "fullName") \/ ~HasColumn(speakers, "links") THEN "Exception"
    ELSE IF \A i \in DOMAIN speakers.rows : speakers.rows[i].sessions = <<>> THEN "Exception"
    ELSE IF ~HasColumn(sessions, "SessionId") THEN "Exception"
    ELSE IF \A i \in DOMAIN speakers.rows : speakers.rows[i].links = <<>> THEN "Exception"
    ELSE "none"

(* final_df.write_csv: the header line, then one line per row; a null is   *)
(* written as an empty field.                                              *)
CsvField(v) == IF v = Null THEN "" ELSE v[1]
CsvLine(row) ==
    << CsvField(row.FullName), CsvField(row.Session), CsvField(row.RecordingUrl),
       CsvField(row.LinkedIn), CsvField(row.BlueSky), CsvField(row.Twitter),
       CsvField(row.Instagram) >>
CsvText(df) == <<df.columns>> \o [i \in DOMAIN df.rows |-> CsvLine(df.rows[i])]

(* Writing in append mode: the text follows what was there. *)
AppendCsv(old, df) == IF old = Null THEN Val(CsvText(df)) ELSE Val(old[1] \o CsvText(df))

(* Writing opens the path for writing: the text replaces what was there. *)
WriteCsv(old, df) == Val(CsvText(df))

---------------------------------------------------------------------------
(* The environment: what the two endpoints answer.  A response is either a *)
(* failure of the given kind or a body: the tracks of the sessions         *)
(* endpoint, the speakers of the speakers endpoint.                        *)
Failed(kind) == [kind |-> kind, body |-> <<>>, absent |-> {}]
Ok(body) == [kind |-> "ok", body |-> body, absent |-> {}]
(* A body in which no object has the fields of absent; a body that is no   *)
(* JSON at all.                                                            *)
OkWithout(body, absent) == [kind |-> "ok", body |-> body, absent |-> absent]
Unparseable == [kind |-> "unparseable", body |-> <<>>, absent |-> {}]

Track(sessions) == [sessions |-> sessions]
Session(id, title, url) == [id |-> id, title |-> title, recordingUrl |-> url]
Embedded(id, name) == [id |-> id, name |-> name]
Link(title, url) == [title |-> title, url |-> url]

FullNameOf(i) == IF i % 2 = 1 THEN "Ann" ELSE "Bob"

(* The speakers table of the given (sessions, links) pairs: the i-th       *)
(* speaker has id i.                                                       *)
Speakers(parts) ==
    [i \in DOMAIN parts |->
        [id |-> i, fullName |-> FullNameOf(i),
         sessions |-> parts[i].sessions, links |-> parts[i].links]]
Part(sessions, links) == [sessions |-> sessions, links |-> links]

RecognizedTitles == {"LinkedIn", "Bluesky", "X (Twitter)", "Instagram"}
LinkValues == {Link(t, u) : t \in RecognizedTitles \cup {"GitHub"}, u \in {"L1", "L2"}}
SessionValues ==
    {Session(i, "N1", u) : i \in {<<"1">>, <<"2">>}, u \in {Null, Val("U1"), Val("U2")}}
EmbeddedValues == {Embedded(1, "N1"), Embedded(2, "N2")}

SomeLinks == << Link("LinkedIn", "L1") >>
SampleSpeakers ==
    Speakers(<< Part(<<Embedded(1, "N1")>>,
                     <<Link("LinkedIn", "L1"), Link("Instagram", "L2")>>),
                Part(<<Embedded(2, "N2")>>,
                     <<Link("X (Twitter)", "L1"), Link("LinkedIn", "L2"),
                       Link("Bluesky", "L1")>>) >>)
SampleTracks ==
    << Track(<<Session(<<"1">>, "N1", Val("U1"))>>),
       Track(<<Session(<<"2">>, "N2", Val("U2"))>>) >>

(* Every failure of either endpoint against a few bodies of the other. *)
FailureScenarios ==
    ({Failed(k) : k \in FailureKinds}
        \cup {Ok(SampleTracks), Ok(<<>>), Ok(<<Track(<<>>)>>),
              Ok(<<Track(<<Session(<<"x">>, "N1", Null)>>)>>),
              Ok(<<Track(<<Session(<<"0", "1">>, "T", Val("U1"))>>)>>)})
    \X
    ({Failed(k) : k \in FailureKinds}
        \cup {Ok(<<>>), Ok(SampleSpeakers),
              Ok(Speakers(<<Part(<<Embedded(9, "N9")>>, SomeLinks)>>))})

(* Every sessions table against a few speakers tables. *)
SessionScenarios ==
    {Ok(<<Track(ss)>>) : ss \in SeqsUpTo(SessionValues, MaxSessions)}
    \X
    {Ok(Speakers(<<Part(<<Embedded(1, "N1"), Embedded(2, "N2")>>, SomeLinks)>>)),
     Ok(Speakers(<<Part(<<>>, <<>>), Part(<<Embedded(1, "N2")>>, SomeLinks)>>))}

(* Every sessions list of every speaker against a few sessions tables. *)
SpeakerScenarios ==
    {Ok(<<Track(<<Session(<<"1">>, "N1", Val("U1"))>>)>>),
     Ok(<<Track(<<Session(<<"2">>, "T", Null)>>), Track(<<>>),
          Track(<<Session(<<"1">>, "T", Val("U2"))>>)>>)}
    \X
    {Ok(Speakers([i \in DOMAIN ps |-> Part(ps[i], SomeLinks)])) :
        ps \in SeqsUpTo(SeqsUpTo(EmbeddedValues, MaxSpeakerSessions), MaxSpeakers) \ {<<>>}}

(* Every links list of a speaker, alone and beside a speaker with links. *)
LinkScenarios ==
    {Ok(SampleTracks)}
    \X
    ({Ok(Speakers(<<Part(<<Embedded(1, "N1")>>, ls)>>)) :
            ls \in SeqsUpTo(LinkValues, MaxLinks)}
     \cup
     {Ok(Speakers(<<Part(<<Embedded(1, "N1")>>, ls), Part(<<Embedded(2, "N2")>>, SomeLinks)>>)) :
            ls \in SeqsUpTo(LinkValues, MaxLinks)})

(* Every session id string of a few digits against a few speaker-side ids. *)
IdStrings == SeqsUpTo({"0", "1", "2"}, MaxIdDigits) \ {<<>>}
IdScenarios ==
    {Ok(<<Track(<<Session(id, "T", Val("U1"))>>)>>) : id \in IdStrings}
    \X
    {Ok(Speakers(<<Part(<<Embedded(n, "N1")>>, SomeLinks)>>)) : n \in {1, 12, 21}}

(* Malformed bodies of either endpoint against a few answers of the other. *)
MalformedScenarios ==
    ({Ok(SampleTracks), Unparseable, Failed("Timeout")}
     \X
     ({Unparseable} \cup
      {OkWithout(SampleSpeakers, a) : a \in (SUBSET {"sessions", "links", "fullName"}) \ {{}}}))
    \cup
    ({Unparseable} \X {Ok(SampleSpeakers), Ok(<<>>), Failed("ConnectionError")})

Scenarios ==
    FailureScenarios \cup SessionScenarios \cup SpeakerScenarios \cup LinkScenarios
        \cup IdScenarios \cup MalformedScenarios

(* The output path before the first run: no file, or a file of an earlier  *)
(* export.                                                                 *)
NoFile == Null
StaleFile == Val(<< FinalColumns, <<"Zoe", "Old", "", "", "", "", "">> >>)

---------------------------------------------------------------------------
Init ==
    /\ \E sc \in Scenarios : sessionsApi = sc[1] /\ speakersApi = sc[2]
    /\ file \in {NoFile, StaleFile}
    /\ run = 0
    /\ pc = "idle"
    /\ sessions_df = EmptyDataFrame
    /\ speakers_df = EmptyDataFrame
    /\ merged_df = EmptyDataFrame
    /\ final_df = EmptyDataFrame
    /\ stdout = <<>>
    /\ requests = <<>>
    /\ stages = <<>>
    /\ writes = 0
    /\ escaped = "none"
    /\ fileAtStart = file
    /\ fileAfterRun = <<>>

Env == <<sessionsApi, speakersApi>>

(* main(output_file) is called. *)
StartRun ==
    /\ pc \in {"idle", "returned", "raised"}
    /\ run < MaxRuns
    /\ run' = run + 1
    /\ pc' = "fetch_sessions"
    /\ sessions_df' = EmptyDataFrame
    /\ speakers_df' = EmptyDataFrame
    /\ merged_df' = EmptyDataFrame
    /\ final_df' = EmptyDataFrame
    /\ stdout' = <<>>
    /\ requests' = <<>>
    /\ stages' = <<>>
    /\ writes' = 0
    /\ escaped' = "none"
    /\ fileAtStart' = file
    /\ UNCHANGED <<Env, file, fileAfterRun>>

(* main returns, or an exception leaves it; the path keeps what it holds. *)
Leave(how, kind) ==
    /\ pc' = how
    /\ escaped' = kind
    /\ fileAfterRun' = Append(fileAfterRun, file')

(* The sessions request issued a second time. *)
SessionsRequestRetried(log) == Append(Append(log, SESSIONS_API_URL), SESSIONS_API_URL)
SessionsRequest(log) == Append(log, SESSIONS_API_URL)
SpeakersRequest(log) == Append(log, SPEAKERS_API_URL)

(* fetch_sessions_data returns the table of the response. *)
FetchSessionsOk ==
    /\ pc = "fetch_sessions"
    /\ SessionsFailure(sessionsApi) = "none"
    /\ requests' = SessionsRequest(requests)
    /\ stages' = Append(stages, "fetch_sessions")
    /\ sessions_df' = SessionsTable(sessionsApi)
    /\ stdout' = stdout \o <<MsgFetchingSessions, MsgSessionsFetched>>
    /\ pc' = "fetch_speakers"
    /\ UNCHANGED <<Env, file, run, speakers_df, merged_df, final_df, writes,
                   escaped, fileAtStart, fileAfterRun>>

(* fetch_sessions_data handles the failure and returns empty_df. *)
FetchSessionsFail ==
    /\ pc = "fetch_sessions"
    /\ SessionsFailure(sessionsApi) # "none"
    /\ requests' = SessionsRequest(requests)
    /\ stages' = Append(stages, "fetch_sessions")
    /\ Dispatch(SessionsHandlers, SessionsFailure(sessionsApi)) # Null
    /\ sessions_df' = empty_df
    /\ stdout' = stdout \o <<MsgFetchingSessions>>
                        \o Dispatch(SessionsHandlers, SessionsFailure(sessionsApi))
    /\ pc' = "fetch_speakers"
    /\ UNCHANGED <<Env, file, run, speakers_df, merged_df, final_df, writes,
                   escaped, fileAtStart, fileAfterRun>>

(* fetch_speakers_data returns the table read from the response. *)
FetchSpeakersOk ==
    /\ pc = "fetch_speakers"
    /\ SpeakersFailure(speakersApi) = "none"
    /\ requests' = SpeakersRequest(requests)
    /\ stages' = Append(stages, "fetch_speakers")
    /\ speakers_df' = WithoutColumns(ReadJson(speakersApi.body), speakersApi.absent)
    /\ stdout' = Append(stdout, MsgFetchingSpeakers)
    /\ pc' = "check"
    /\ UNCHANGED <<Env, file, run, sessions_df, merged_df, final_df, writes,
                   escaped, fileAtStart, fileAfterRun>>

(* fetch_speakers_data handles the failure and returns an empty table. *)
FetchSpeakersHandled ==
    /\ pc = "fetch_speakers"
    /\ SpeakersFailure(speakersApi) # "none"
    /\ Dispatch(SpeakersHandlers, SpeakersFailure(speakersApi)) # Null
    /\ requests' = SpeakersRequest(requests)
    /\ stages' = Append(stages, "fetch_speakers")
    /\ speakers_df' = EmptyDataFrame
    /\ stdout' = Append(stdout, MsgFetchingSpeakers)
    /\ pc' = "check"
    /\ UNCHANGED <<Env, file, run, sessions_df, merged_df, final_df, writes,
                   escaped, fileAtStart, fileAfterRun>>

(* No clause of fetch_speakers_data handles the failure; the call is not   *)
(* inside the try of main, so the exception leaves main.                   *)
FetchSpeakersRaise ==
    /\ pc = "fetch_speakers"
    /\ SpeakersFailure(speakersApi) # "none"
    /\ Dispatch(SpeakersHandlers, SpeakersFailure(speakersApi)) = Null
    /\ requests' = SpeakersRequest(requests)
    /\ stages' = Append(stages, "fetch_speakers")
    /\ stdout' = Append(stdout, MsgFetchingSpeakers)
    /\ file' = file
    /\ Leave("raised", SpeakersFailure(speakersApi))
    /\ UNCHANGED <<Env, run, sessions_df, speakers_df, merged_df, final_df,
                   writes, fileAtStart>>

(* if speakers_df.is_empty(): print and return. *)
NoSpeakerData ==
    /\ pc = "check"
    /\ IsEmpty(speakers_df)
    /\ stdout' = Append(stdout, MsgNoSpeakers)
    /\ file' = file
    /\ Leave("returned", "none")
    /\ UNCHANGED <<Env, run, sessions_df, speakers_df, merged_df, final_df,
                   requests, stages, writes, fileAtStart>>

(* explode, join and projection succeed. *)
Merge ==
    /\ pc = "check"
    /\ ~IsEmpty(speakers_df)
    /\ MergeFailure(speakers_df, sessions_df) = "none"
    /\ stages' = Append(stages, "merge")
    /\ merged_df' = LeftJoin(Explode(speakers_df), sessions_df)
    /\ final_df' = Select(LeftJoin(Explode(speakers_df), sessions_df))
    /\ pc' = "export"
    /\ UNCHANGED <<Env, file, run, sessions_df, speakers_df, stdout, requests,
                   writes, escaped, fileAtStart, fileAfterRun>>

(* The output path opened for writing before the merge, and left empty     *)
(* when the merge raises.                                                  *)
MergeFailTruncating ==
    /\ pc = "check"
    /\ ~IsEmpty(speakers_df)
    /\ MergeFailure(speakers_df, sessions_df) # "none"
    /\ stages' = Append(stages, "merge")
    /\ stdout' = stdout \o Dispatch(MainHandlers, MergeFailure(speakers_df, sessions_df))
    /\ file' = Val(<<>>)
    /\ Leave("returned", "none")
    /\ UNCHANGED <<Env, run, sessions_df, speakers_df, merged_df, final_df,
                   requests, writes, fileAtStart>>

(* explode, join or projection raises; a clause of main's try handles it. *)
MergeFail ==
    /\ pc = "check"
    /\ ~IsEmpty(speakers_df)
    /\ MergeFailure(speakers_df, sessions_df) # "none"
    /\ stages' = Append(stages, "merge")
    /\ stdout' = stdout \o Dispatch(MainHandlers, MergeFailure(speakers_df, sessions_df))
    /\ file' = file
    /\ Leave("returned", "none")
    /\ UNCHANGED <<Env, run, sessions_df, speakers_df, merged_df, final_df,
                   requests, writes, fileAtStart>>

(* final_df.write_csv(output_file), the success message, return. *)
Export ==
    /\ pc = "export"
    /\ stages' = Append(stages, "export")
    /\ file' = WriteCsv(file, final_df)
    /\ writes' = writes + 1
    /\ stdout' = Append(stdout, MsgGenerated)
    /\ Leave("returned", "none")
    /\ UNCHANGED <<Env, run, sessions_df, speakers_df, merged_df, final_df,
                   requests, fileAtStart>>

Next ==
    \/ StartRun
    \/ FetchSessionsOk
    \/ FetchSessionsFail
    \/ FetchSpeakersOk
    \/ FetchSpeakersHandled
    \/ FetchSpeakersRaise
    \/ NoSpeakerData
    \/ Merge
    \/ MergeFail
    \/ Export

Spec == Init /\ [][Next]_vars

TypeOK ==
    /\ pc \in {"idle", "fetch_sessions", "fetch_speakers", "check", "export",
               "returned", "raised"}
    /\ run \in 0..MaxRuns
    /\ writes \in 0..1

---------------------------------------------------------------------------
(* Vocabulary of the properties. *)
Ended == pc \in {"returned", "raised"}
Past(stage) == stage \in Range(stages)
MergeSucceeded == pc = "export" \/ (pc = "returned" /\ writes = 1)
SpeakersNonEmpty ==
    speakersApi.kind = "ok" /\ speakersApi.body # <<>> /\ speakersApi.absent = {}

(* The message the sessions fetch is to report for a failure kind. *)
SessionsMessageFor(kind) ==
    CASE kind = "ConnectionError" -> MsgSessionsConnection
      [] kind = "HTTPError" -> MsgSessionsHttp
      [] kind = "Timeout" -> MsgSessionsTimeout
      [] kind = "RequestException" -> MsgSessionsRequest
      [] OTHER -> MsgSessionsUnexpected

IsPrefix(s, t) == Len(s) <= Len(t) /\ \A i \in DOMAIN s : s[i] = t[i]

(* C1: whatever the kind of failure of the sessions fetch, once            *)
(* fetch_sessions_data is over it has reported the message of that kind,   *)
(* returned an empty table and raised nothing, and the run goes on: the    *)
(* next stage is the speakers fetch, whose request follows the sessions    *)
(* request.                                                                *)
C1_SessionsFailureDegrades ==
    (sessionsApi.kind \in FailureKinds /\ Past("fetch_sessions")) =>
        /\ IsEmpty(sessions_df)
        /\ Len(stdout) >= 2 /\ stdout[2] = SessionsMessageFor(sessionsApi.kind)
        /\ ~Past("fetch_speakers") => (pc = "fetch_speakers" /\ escaped = "none")
        /\ Past("fetch_speakers") => requests = <<SESSIONS_API_URL, SPEAKERS_API_URL>>

C1_Witness ==
    /\ sessionsApi.kind = "RequestException"
    /\ pc = "check"
    /\ IsEmpty(sessions_df)
    /\ requests = <<SESSIONS_API_URL, SPEAKERS_API_URL>>

(* C2: when the speakers endpoint answers an empty list or the speakers    *)
(* fetch fails to connect, whatever the sessions fetch did, the run never  *)
(* reaches merge or export, writes nothing to the output path, and ends by *)
(* main returning normally after reporting that there is no speaker data.  *)
C2_EmptySpeakersShortCircuit ==
    ((speakersApi = Ok(<<>>) \/ speakersApi.kind = "ConnectionError") /\ run >= 1) =>
        /\ ~Past("merge") /\ ~Past("export") /\ pc # "export"
        /\ writes = 0 /\ file = fileAtStart
        /\ pc # "raised" /\ escaped = "none"
        /\ Past("fetch_speakers") => IsEmpty(speakers_df)
        /\ Ended => (pc = "returned" /\ stdout[Len(stdout)] = MsgNoSpeakers)

C2_Witness ==
    /\ speakersApi.kind = "ConnectionError"
    /\ sessionsApi.kind = "ok"
    /\ pc = "returned"
    /\ stdout[Len(stdout)] = MsgNoSpeakers
    /\ file = NoFile

(* C3: when the sessions fetch failed and the speakers table is not empty, *)
(* the run still exports one row per (speaker, session) pair, with an      *)
(* absent recordingUrl and the speaker's embedded session name.            *)
C3_RowsWithoutSessions ==
    (sessionsApi.kind \in FailureKinds /\ SpeakersNonEmpty /\ Ended) =>
        /\ writes = 1
        /\ \A i \in DOMAIN speakersApi.body : \A j \in DOMAIN speakersApi.body[i].sessions :
            \E k \in DOMAIN final_df.rows :
                /\ final_df.rows[k].FullName = Val(speakersApi.body[i].fullName)
                /\ final_df.rows[k].Session = Val(speakersApi.body[i].sessions[j].name)
                /\ final_df.rows[k].RecordingUrl = Null

(* C4: when the sessions fetch fails to connect, with an HTTP error or     *)
(* with a timeout and the speakers fetch gives a non-empty table, main     *)
(* prints the sessions message of that failure, returns without raising    *)
(* and writes nothing: a path with no file before has no file after.       *)
C4_SessionsFailureNoFile ==
    (sessionsApi.kind \in {"ConnectionError", "HTTPError", "Timeout"}
        /\ SpeakersNonEmpty /\ Ended) =>
        /\ pc = "returned" /\ escaped = "none"
        /\ SessionsMessageFor(sessionsApi.kind) \in Range(stdout)
        /\ writes = 0 /\ file = fileAtStart
        /\ fileAtStart = NoFile => file = NoFile

C4_Witness ==
    /\ sessionsApi.kind = "HTTPError"
    /\ SpeakersNonEmpty
    /\ pc = "returned"
    /\ MsgSessionsHttp \in Range(stdout)
    /\ fileAtStart = NoFile /\ file = NoFile

(* C5: when the speakers fetch fails with an HTTP error, a timeout or      *)
(* another request failure, main's catch-all reports a generic message,    *)
(* main returns normally and writes no file.                               *)
C5_SpeakersFailureCaughtByMain ==
    (speakersApi.kind \in {"HTTPError", "Timeout", "RequestException"} /\ Ended) =>
        /\ pc = "returned" /\ escaped = "none"
        /\ stdout[Len(stdout)] \in {MsgMainHttp, MsgMainTimeout, MsgMainRequest,
                                    MsgMainUnexpected}
        /\ writes = 0

---------------------------------------------------------------------------
(* The speaker a merged row comes from, and the positions of that          *)
(* speaker's links that carry a title.                                     *)
SpeakerOf(k) == speakers_df.rows[merged_df.rows[k].id]
Titled(links, title) == {i \in DOMAIN links : links[i].title = title}
Earliest(S) == CHOOSE i \in S : \A j \in S : i <= j

ExpectedLink(links, title) ==
    IF Titled(links, title) = {} THEN Null
    ELSE Val(links[Earliest(Titled(links, title))].url)

(* C6: in every output row each of the four link columns is the url of the *)
(* earliest link of the row's speaker with exactly the title of that       *)
(* column, and is null, not an empty string, when the speaker has no link  *)
(* of that title.                                                          *)
C6_FirstMatchingLink ==
    MergeSucceeded =>
        /\ Len(final_df.rows) = Len(merged_df.rows)
        /\ \A k \in DOMAIN final_df.rows :
            /\ final_df.rows[k].LinkedIn = ExpectedLink(SpeakerOf(k).links, "LinkedIn")
            /\ final_df.rows[k].BlueSky = ExpectedLink(SpeakerOf(k).links, "Bluesky")
            /\ final_df.rows[k].Twitter = ExpectedLink(SpeakerOf(k).links, "X (Twitter)")
            /\ final_df.rows[k].Instagram = ExpectedLink(SpeakerOf(k).links, "Instagram")
            /\ \A c \in {final_df.rows[k].LinkedIn, final_df.rows[k].BlueSky,
                         final_df.rows[k].Twitter, final_df.rows[k].Instagram} :
                    c # Val("")

C6_Witness ==
    /\ MergeSucceeded
    /\ \E k \in DOMAIN final_df.rows :
        /\ SpeakerOf(k).links = <<Link("LinkedIn", "L2"), Link("LinkedIn", "L1")>>
        /\ final_df.rows[k].LinkedIn = Val("L2")
        /\ final_df.rows[k].Instagram = Null

(* Rows of the merge that stem from one (speaker, embedded session), and   *)
(* what the claims count.                                                  *)
RowsOf(id, element) ==
    {k \in DOMAIN merged_df.rows :
        merged_df.rows[k].id = id /\ merged_df.rows[k].sessions = element}
Occurrences(list, e) == Cardinality({j \in DOMAIN list : list[j] = e})
UniqueSessionIds ==
    \A a, b \in DOMAIN sessions_df.rows :
        sessions_df.rows[a].SessionId = sessions_df.rows[b].SessionId => a = b
PairCount == SumSeq([i \in DOMAIN speakers_df.rows |-> Len(speakers_df.rows[i].sessions)])
PairOrBlankCount ==
    SumSeq([i \in DOMAIN speakers_df.rows |->
        IF speakers_df.rows[i].sessions = <<>> THEN 1 ELSE Len(speakers_df.rows[i].sessions)])
OnePerPair ==
    \A i \in DOMAIN speakers_df.rows : \A e \in Range(speakers_df.rows[i].sessions) :
        Cardinality(RowsOf(speakers_df.rows[i].id, Val(e)))
            = Occurrences(speakers_df.rows[i].sessions, e)

(* C7 as stated: with unique session ids a successful merge yields one row *)
(* per (speaker, element of the speaker's sessions list) pair and no other *)
(* row, so as many rows as the lengths of the sessions lists sum to.       *)
C7_OneRowPerPair ==
    (MergeSucceeded /\ UniqueSessionIds) =>
        /\ OnePerPair
        /\ Len(final_df.rows) = PairCount

(* C7 amended: with unique session ids a successful merge yields one row   *)
(* per (speaker, element of the speaker's sessions list) pair, matched or  *)
(* not, one row with an absent session for every speaker whose sessions    *)
(* list is empty, and no other row.                                        *)
C7_OneRowPerPairOrBlank ==
    (MergeSucceeded /\ UniqueSessionIds) =>
        /\ OnePerPair
        /\ \A i \in DOMAIN speakers_df.rows :
            Cardinality(RowsOf(speakers_df.rows[i].id, Null))
                = IF speakers_df.rows[i].sessions = <<>> THEN 1 ELSE 0
        /\ Len(merged_df.rows) = PairOrBlankCount
        /\ Len(final_df.rows) = PairOrBlankCount

C7_Witness ==
    /\ MergeSucceeded /\ UniqueSessionIds
    /\ Len(sessions_df.rows) = 1
    /\ Len(speakers_df.rows) = 2
    /\ speakers_df.rows[1].sessions = <<>>
    /\ Len(speakers_df.rows[2].sessions) = 2
    /\ Len(final_df.rows) = 3
    /\ \E k \in DOMAIN final_df.rows :
        final_df.rows[k].Session # Null /\ final_df.rows[k].RecordingUrl = Null

(* The session records whose id is the key of a merged row. *)
RecordsFor(key) ==
    {r \in Range(sessions_df.rows) : key # Null /\ r.SessionId = key}

(* C8: in every output row recordingUrl is the recordingUrl (null if that  *)
(* is null) of the session record whose id is the row's embedded session   *)
(* id, and null when there is no such record; the Session column is the    *)
(* embedded session name, never the title of the session record.           *)
C8_RecordingUrlFromRecord ==
    MergeSucceeded =>
        \A k \in DOMAIN final_df.rows :
            /\ RecordsFor(merged_df.rows[k].SessionId) = {}
                    => final_df.rows[k].RecordingUrl = Null
            /\ RecordsFor(merged_df.rows[k].SessionId) # {}
                    => final_df.rows[k].RecordingUrl \in
                        {r.RecordingUrl : r \in RecordsFor(merged_df.rows[k].SessionId)}
            /\ merged_df.rows[k].sessions # Null =>
                /\ merged_df.rows[k].sessions[1] \in Range(SpeakerOf(k).sessions)
                /\ merged_df.rows[k].SessionId = Val(merged_df.rows[k].sessions[1].id)
                /\ final_df.rows[k].Session = Val(merged_df.rows[k].sessions[1].name)

C8_Witness ==
    /\ MergeSucceeded /\ UniqueSessionIds
    /\ \E k \in DOMAIN final_df.rows :
        /\ final_df.rows[k].RecordingUrl = Val("U2")
        /\ final_df.rows[k].Session = Val("N2")
        /\ merged_df.rows[k].SessionTitle = Val("N1")
    /\ \E k \in DOMAIN final_df.rows :
        /\ final_df.rows[k].RecordingUrl = Null
        /\ RecordsFor(merged_df.rows[k].SessionId) # {}

StageOrder == <<"fetch_sessions", "fetch_speakers", "merge", "export">>

(* C9: the stages of a run happen in the order fetch sessions, fetch       *)
(* speakers, merge, export, none twice; the requests of a run are the      *)
(* sessions request and then the speakers request, both issued by the end  *)
(* of the run whatever they answer, none repeated; the output is written   *)
(* at most once, after both fetches and the merge.                         *)
C9_StagesInOrder ==
    /\ IsPrefix(stages, StageOrder)
    /\ IsPrefix(requests, <<SESSIONS_API_URL, SPEAKERS_API_URL>>)
    /\ Len(requests) = Cardinality(Range(stages) \cap {"fetch_sessions", "fetch_speakers"})
    /\ Ended => requests = <<SESSIONS_API_URL, SPEAKERS_API_URL>>
    /\ writes \in {0, 1}
    /\ writes = 1 <=> Past("export")
    /\ file # fileAtStart => writes = 1

C9_Witness ==
    /\ pc = "returned"
    /\ stages = StageOrder
    /\ requests = <<SESSIONS_API_URL, SPEAKERS_API_URL>>
    /\ writes = 1
    /\ sessionsApi.kind = "ok"

(* C10: a run of main against the same two responses and the same output   *)
(* path leaves at that path what the run before it left there; what a run  *)
(* writes replaces what the path held.                                     *)
C10_RerunSameFile ==
    /\ \A i, j \in DOMAIN fileAfterRun : fileAfterRun[i] = fileAfterRun[j]
    /\ (Ended /\ writes = 1) =>
            /\ file # NoFile
            /\ Len(file[1]) = 1 + Len(final_df.rows)
            /\ file[1][1] = FinalColumns

C10_Witness ==
    /\ run = 2 /\ pc = "returned" /\ writes = 1
    /\ Len(fileAfterRun) = 2
    /\ fileAtStart = fileAfterRun[1]
    /\ file = fileAtStart
    /\ Len(file[1]) = 3
    /\ file # StaleFile

---------------------------------------------------------------------------
(* The sessions of a sessions response, and the number a string of decimal *)
(* digits denotes.                                                         *)
ResponseSessions(response) ==
    UNION {Range(response.body[t].sessions) : t \in DOMAIN response.body}
DigitValue(c) ==
    CASE c = "0" -> 0 [] c = "1" -> 1 [] c = "2" -> 2 [] c = "3" -> 3 [] c = "4" -> 4
      [] c = "5" -> 5 [] c = "6" -> 6 [] c = "7" -> 7 [] c = "8" -> 8 [] c = "9" -> 9
DecimalValue(s) == SumSeq([i \in DOMAIN s |-> DigitValue(s[i]) * 10 ^ (Len(s) - i)])
ValidSessionsResponse ==
    /\ sessionsApi.kind = "ok"
    /\ ResponseSessions(sessionsApi) # {}
    /\ \A x \in ResponseSessions(sessionsApi) :
            x.id # <<>> /\ \A i \in DOMAIN x.id : x.id[i] \in Range(DigitChars)

(* C11: after the fetch of a valid sessions response the session ids of    *)
(* the table are the integers the id strings denote in decimal, and in the *)
(* merge a row of a speaker's embedded session gets a session record       *)
(* exactly when some id string of the response denotes the embedded id.    *)
C11_IdCoercion ==
    (ValidSessionsResponse /\ Past("fetch_sessions")) =>
        /\ {r.SessionId : r \in Range(sessions_df.rows)}
                = {Val(DecimalValue(x.id)) : x \in ResponseSessions(sessionsApi)}
        /\ MergeSucceeded =>
            \A k \in DOMAIN merged_df.rows :
                merged_df.rows[k].sessions # Null =>
                    (merged_df.rows[k].SessionTitle # Null
                        <=> \E x \in ResponseSessions(sessionsApi) :
                                DecimalValue(x.id) = merged_df.rows[k].sessions[1].id)

C11_Witness ==
    /\ ValidSessionsResponse /\ MergeSucceeded
    /\ \E x \in ResponseSessions(sessionsApi) : x.id = <<"1", "2">>
    /\ \E k \in DOMAIN final_df.rows :
        /\ merged_df.rows[k].sessions # Null
        /\ merged_df.rows[k].sessions[1].id = 12
        /\ final_df.rows[k].RecordingUrl = Val("U1")

---------------------------------------------------------------------------
(* A response that was fetched but is malformed: the speakers body is no   *)
(* JSON or lacks a field in every object, or the sessions body is no JSON  *)
(* while the speakers table is there.                                      *)
MalformedResponse ==
    \/ speakersApi.kind = "unparseable"
    \/ speakersApi.kind = "ok" /\ speakersApi.absent # {}
    \/ sessionsApi.kind = "unparseable" /\ SpeakersNonEmpty

(* C12: when a fetched response is malformed, the run ends by main         *)
(* returning normally after its catch-all reported an unexpected error,    *)
(* with no exception raised to the caller and nothing written.             *)
C12_MalformedCaughtByMain ==
    (MalformedResponse /\ Ended) =>
        /\ pc = "returned" /\ escaped = "none"
        /\ stdout[Len(stdout)] = MsgMainUnexpected
        /\ writes = 0 /\ file = fileAtStart

---------------------------------------------------------------------------
(* C13: a run that has not reached the write step has left the output path *)
(* as it found it, whether it ended on an empty speakers table, on a       *)
(* failure of explode, join or projection, or otherwise; the content of    *)
(* the path differs from what the run found only after a complete merge    *)
(* and the write of its rows.                                              *)
C13_ExportAllOrNothing ==
    /\ ~Past("export") => (writes = 0 /\ file = fileAtStart)
    /\ file # fileAtStart =>
        /\ Past("merge") /\ Past("export") /\ writes = 1
        /\ MergeFailure(speakers_df, sessions_df) = "none"
        /\ Len(final_df.rows) = Len(merged_df.rows)
        /\ file = Val(<<FinalColumns>> \o [k \in DOMAIN final_df.rows |->
                        <<CsvField(final_df.rows[k].FullName),
                          CsvField(final_df.rows[k].Session),
                          CsvField(final_df.rows[k].RecordingUrl),
                          CsvField(final_df.rows[k].LinkedIn),
                          CsvField(final_df.rows[k].BlueSky),
                          CsvField(final_df.rows[k].Twitter),
                          CsvField(final_df.rows[k].Instagram)>>])

C13_Witness ==
    /\ fileAtStart = StaleFile
    /\ sessionsApi.kind = "ok"
    /\ speakersApi.kind = "ok" /\ speakersApi.absent = {"links"}
    /\ pc = "returned"
    /\ Past("merge") /\ ~Past("export")
    /\ stdout[Len(stdout)] = MsgMainUnexpected
    /\ file = StaleFile

====
